---- MODULE Spec2Model ----
(***************************************************************************)
(* Model of scripts/import-ufo-batch.py: the configuration check at module *)
(* load, the three scorers, the triage status classifier, the selector and *)
(* the batch insert loop of main().                                        *)
(*                                                                         *)
(* Numbers.  Python numbers read from JSON are ints or floats.  A number x *)
(* is modelled as the integer x * Den (fixed point with denominator Den),  *)
(* so that 2.5 witnesses is the value 5 when Den = 2.  Num(k) is the       *)
(* literal k of the source.  Booleans are the numbers 0 and 1, as in       *)
(* Python.                                                                 *)
(*                                                                         *)
(* Optional fields.  dict.get(k) returns None for a missing key; a field   *)
(* is the empty tuple None when absent and the one-element tuple Some(v)   *)
(* when present.                                                           *)
(*                                                                         *)
(* The title/description builders (clean_text, lines 74-78 and 94-103) and *)
(* the pass-through fields of raw_data that no scorer or filter reads are  *)
(* not modelled.                                                           *)
(***************************************************************************)
EXTENDS Integers, Sequences, FiniteSets, TLC

\* ------------------------------------------------------------------ bounds
Den == 2           \* denominator of the fixed-point numbers
MaxWitness == 4    \* largest witness_count explored
MaxLen == 3        \* longest input file (records)
MaxBatchSize == 2  \* largest BATCH_SIZE explored

\* ------------------------------------------------------------------ values
Num(k) == k * Den
IsInteger(x) == x % Den = 0

None == << >>
Some(v) == << v >>

\* Python truthiness of r.get(k) for a numeric or boolean field
Truthy(x) == x # None /\ x[1] # 0
\* Python truthiness of r.get(k) for a string field
TruthyStr(x) == x # None /\ x[1] # ""

Min(a, b) == IF a <= b THEN a ELSE b
Max(a, b) == IF a >= b THEN a ELSE b

\* ------------------------------------------------------------------ scorers
quality_score(r) ==
    LET s1 == IF Truthy(r.physiological_effects) THEN Num(3) ELSE 0
        s2 == IF Truthy(r.em_interference) THEN Num(3) ELSE 0
        s3 == IF Truthy(r.earthquake_nearby) THEN Num(2) ELSE 0
        s4 == IF Truthy(r.geomagnetic_storm) THEN Num(2) ELSE 0
        s5 == IF Truthy(r.witness_count) /\ r.witness_count[1] > Num(1)
              THEN Min(Num(3), r.witness_count[1]) ELSE 0
        s6 == IF Truthy(r.duration_seconds) /\ r.duration_seconds[1] > Num(60)
              THEN Num(1) ELSE 0
        s7 == IF TruthyStr(r.shape) /\ r.shape[1] \notin {"unknown", "other", "light"}
              THEN Num(1) ELSE 0
    IN  s1 + s2 + s3 + s4 + s5 + s6 + s7

\* calc_triage_score without the coordinates bonus of line 47
calc_triage_score_no_coords(r) ==
    LET s2 == IF Truthy(r.witness_count) /\ r.witness_count[1] > Num(1)
              THEN Min(Num(2), r.witness_count[1] - Num(1)) ELSE 0
        s3 == IF Truthy(r.duration_seconds) /\ r.duration_seconds[1] > 0
              THEN Num(1) ELSE 0
        s4 == IF Truthy(r.physical_effects) \/ Truthy(r.physiological_effects)
              THEN Num(2) ELSE 0
        s5 == IF Truthy(r.em_interference) THEN Num(1) ELSE 0
        s6 == IF TruthyStr(r.source) THEN Num(1) ELSE 0
    IN  Min(Num(10), s2 + s3 + s4 + s5 + s6)

calc_triage_score(r) ==
    LET s1 == IF Truthy(r.latitude) /\ Truthy(r.longitude) THEN Num(3) ELSE 0
        s2 == IF Truthy(r.witness_count) /\ r.witness_count[1] > Num(1)
              THEN Min(Num(2), r.witness_count[1] - Num(1)) ELSE 0
        s3 == IF Truthy(r.duration_seconds) /\ r.duration_seconds[1] > 0
              THEN Num(1) ELSE 0
        s4 == IF Truthy(r.physical_effects) \/ Truthy(r.physiological_effects)
              THEN Num(2) ELSE 0
        s5 == IF Truthy(r.em_interference) THEN Num(1) ELSE 0
        s6 == IF TruthyStr(r.source) THEN Num(1) ELSE 0
    IN  Min(Num(10), s1 + s2 + s3 + s4 + s5 + s6)

calc_confound_score(r) ==
    LET airport == r.airport_nearby_km
        a == IF airport # None
             THEN IF airport[1] < Num(10) THEN Num(40)
                  ELSE IF airport[1] < Num(30) THEN Num(25)
                  ELSE IF airport[1] < Num(50) THEN Num(10)
                  ELSE 0
             ELSE 0
        military == r.military_base_nearby_km
        m == IF military # None
             THEN IF military[1] < Num(30) THEN Num(30)
                  ELSE IF military[1] < Num(50) THEN Num(15)
                  ELSE 0
             ELSE 0
        p == IF Truthy(r.physiological_effects) THEN Num(20) ELSE 0
        e == IF Truthy(r.em_interference) THEN Num(15) ELSE 0
    IN  Max(0, Min(Num(100), a + m - p - e))

\* triage_status with > in place of >= in the verified test
triage_status_strict(triage_score, confound_score) ==
    IF triage_score > Num(7) /\ confound_score < Num(30) THEN "verified"
    ELSE IF triage_score >= Num(4) \/ confound_score < Num(50) THEN "provisional"
    ELSE "pending"

\* lines 86-92 of transform_record: the triage status of a pair of scores
triage_status(triage_score, confound_score) ==
    IF triage_score >= Num(7) /\ confound_score < Num(30) THEN "verified"
    ELSE IF triage_score >= Num(4) \/ confound_score < Num(50) THEN "provisional"
    ELSE "pending"

transform_record(r) ==
    LET triage_score == calc_triage_score(r)
        confound_score == calc_confound_score(r)
        status == triage_status(triage_score, confound_score)
    IN  [ triage_score |-> triage_score,
          triage_status |-> status,
          raw_data |->
            [ local_sidereal_time |-> r.local_sidereal_time,
              witness_count |-> r.witness_count,
              location |-> [ latitude |-> r.latitude, longitude |-> r.longitude ],
              geophysical |-> [ earthquake_nearby |-> r.earthquake_nearby ],
              effects |-> [ physical_effects |-> r.physical_effects,
                            physiological_effects |-> r.physiological_effects,
                            em_interference |-> r.em_interference ],
              source_id |-> r.source_id,
              quality_score |-> triage_score,
              confound_score |-> confound_score ] ]

\* ------------------------------------------------------------------ selector
\* is_tier1 without the local_sidereal_time test
is_tier1_no_lst(r) ==
    Truthy(r.latitude) /\ Truthy(r.longitude)

\* line 171: the condition of the tier1 comprehension
is_tier1(r) ==
    Truthy(r.latitude) /\ Truthy(r.longitude) /\ Truthy(r.local_sidereal_time)

\* lines 175-180: the condition of the high_signal comprehension
is_high_signal(r) ==
    \/ Truthy(r.physiological_effects)
    \/ Truthy(r.em_interference)
    \/ Truthy(r.earthquake_nearby)
    \/ (Truthy(r.witness_count) /\ r.witness_count[1] > Num(1))

\* list.sort(key=quality_score, reverse=True): a stable sort, records of equal
\* key keep their order
RECURSIVE InsertByQuality(_, _)
InsertByQuality(x, s) ==
    IF s = << >> THEN << x >>
    ELSE IF quality_score(Head(s)) >= quality_score(x)
         THEN << Head(s) >> \o InsertByQuality(x, Tail(s))
         ELSE << x >> \o s

RECURSIVE SortAcc(_, _)
SortAcc(done, rest) ==
    IF rest = << >> THEN done
    ELSE SortAcc(InsertByQuality(Head(rest), done), Tail(rest))

\* the sort without reverse=True: ascending, stable
RECURSIVE InsertAscending(_, _)
InsertAscending(x, s) ==
    IF s = << >> THEN << x >>
    ELSE IF quality_score(Head(s)) <= quality_score(x)
         THEN << Head(s) >> \o InsertAscending(x, Tail(s))
         ELSE << x >> \o s

RECURSIVE SortAscAcc(_, _)
SortAscAcc(done, rest) ==
    IF rest = << >> THEN done
    ELSE SortAscAcc(InsertAscending(Head(rest), done), Tail(rest))

sort_ascending(s) == SortAscAcc(<< >>, s)

sort_by_quality(s) == SortAcc(<< >>, s)

\* s[:n]
Take(s, n) == SubSeq(s, 1, Min(n, Len(s)))

\* s[i:i + n - 1]
Slice_short(s, i, n) == SubSeq(s, i + 1, Min(i + n - 1, Len(s)))

\* s[i:i + n], i counted from 0
Slice(s, i, n) == SubSeq(s, i + 1, Min(i + n, Len(s)))

\* [f(x) for x in s]
TransformAll(s) == [ k \in 1..Len(s) |-> transform_record(s[k]) ]

\* ------------------------------------------------------------------ state
VARIABLES
    pc,              \* position of the script
    SUPABASE_URL,    \* os.environ.get('NEXT_PUBLIC_SUPABASE_URL')
    SUPABASE_KEY,    \* os.environ.get('SUPABASE_SERVICE_ROLE_KEY')
    BATCH_SIZE,      \* 500 in the source; explored over 1..MaxBatchSize
    MAX_RECORDS,     \* 5000 in the source; explored over 1..MaxLen
    supabase,        \* TRUE once create_client has returned
    records,         \* None until json.load has returned the file's list
    tier1,
    high_signal,
    selected,
    investigations,
    i,               \* loop variable of the batch loop
    imported,
    failed,
    total_batches,   \* None until a batch line has been printed
    sink,            \* the insert calls made so far, in call order
    summary,         \* None until the import summary has been printed
    exit_code,       \* None while the process runs
    fn, arg, result  \* a scorer called on its own: function, argument, value

pvars == << pc, SUPABASE_URL, SUPABASE_KEY, BATCH_SIZE, MAX_RECORDS, supabase,
            records, tier1, high_signal, selected, investigations, i, imported,
            failed, total_batches, sink, summary, exit_code >>
uvars == << fn, arg, result >>
vars == << pvars, uvars >>

EnvValues == { None, Some(""), Some("set") }

InitPipeline(batchSizes, maxRecords) ==
    /\ pc = "config"
    /\ SUPABASE_URL \in EnvValues
    /\ SUPABASE_KEY \in EnvValues
    /\ BATCH_SIZE \in batchSizes
    /\ MAX_RECORDS \in maxRecords
    /\ supabase = FALSE
    /\ records = None
    /\ tier1 = << >>
    /\ high_signal = << >>
    /\ selected = << >>
    /\ investigations = << >>
    /\ i = 0
    /\ imported = 0
    /\ failed = 0
    /\ total_batches = None
    /\ sink = << >>
    /\ summary = None
    /\ exit_code = None

NoCall == fn = "main" /\ arg = None /\ result = None

\* ------------------------------------------------------------------ actions
\* CheckConfig testing "is None" in place of "not": an empty value passes
CheckConfig_none_only ==
    /\ pc = "config"
    /\ IF SUPABASE_URL = None \/ SUPABASE_KEY = None
       THEN /\ pc' = "exit"
            /\ exit_code' = Some(1)
            /\ UNCHANGED supabase
       ELSE /\ supabase' = TRUE
            /\ pc' = "load"
            /\ UNCHANGED exit_code
    /\ UNCHANGED << SUPABASE_URL, SUPABASE_KEY, BATCH_SIZE, MAX_RECORDS,
                    records, tier1, high_signal, selected, investigations, i,
                    imported, failed, total_batches, sink, summary, uvars >>

\* lines 22-27: a missing URL or key ends the process with status 1;
\* otherwise the client is created and (line 222) main() is entered
CheckConfig ==
    /\ pc = "config"
    /\ IF ~TruthyStr(SUPABASE_URL) \/ ~TruthyStr(SUPABASE_KEY)
       THEN /\ pc' = "exit"
            /\ exit_code' = Some(1)
            /\ UNCHANGED supabase
       ELSE /\ supabase' = TRUE
            /\ pc' = "load"
            /\ UNCHANGED exit_code
    /\ UNCHANGED << SUPABASE_URL, SUPABASE_KEY, BATCH_SIZE, MAX_RECORDS,
                    records, tier1, high_signal, selected, investigations, i,
                    imported, failed, total_batches, sink, summary, uvars >>

\* lines 165-168: the file's list of records is read
Load(contents) ==
    /\ pc = "load"
    /\ \E file \in contents : records' = Some(file)
    /\ pc' = "select"
    /\ UNCHANGED << SUPABASE_URL, SUPABASE_KEY, BATCH_SIZE, MAX_RECORDS, supabase,
                    tier1, high_signal, selected, investigations, i,
                    imported, failed, total_batches, sink, summary, exit_code,
                    uvars >>

\* lines 166-167: open() or json.load() raises; nothing catches it
LoadFails ==
    /\ pc = "load"
    /\ pc' = "crash"
    /\ exit_code' = Some(1)
    /\ UNCHANGED << SUPABASE_URL, SUPABASE_KEY, BATCH_SIZE, MAX_RECORDS, supabase,
                    records, tier1, high_signal, selected, investigations, i,
                    imported, failed, total_batches, sink, summary, uvars >>

\* lines 170-186: both filters, the sort and the truncation
Select ==
    /\ pc = "select"
    /\ LET t1 == SelectSeq(records[1], is_tier1)
           hs == sort_by_quality(SelectSeq(t1, is_high_signal))
       IN  /\ tier1' = t1
           /\ high_signal' = hs
           /\ selected' = Take(hs, MAX_RECORDS)
    /\ pc' = "transform"
    /\ UNCHANGED << SUPABASE_URL, SUPABASE_KEY, BATCH_SIZE, MAX_RECORDS, supabase,
                    records, investigations, i, imported, failed, total_batches,
                    sink, summary, exit_code, uvars >>

\* lines 188-193
Transform ==
    /\ pc = "transform"
    /\ investigations' = TransformAll(selected)
    /\ imported' = 0
    /\ failed' = 0
    /\ i' = 0
    /\ pc' = "batches"
    /\ UNCHANGED << SUPABASE_URL, SUPABASE_KEY, BATCH_SIZE, MAX_RECORDS, supabase,
                    records, tier1, high_signal, selected, total_batches,
                    sink, summary, exit_code, uvars >>

\* InsertBatch counting a failed batch as one failure
InsertBatch_counts_batches(raised) ==
    /\ pc = "batches"
    /\ i < Len(investigations)
    /\ LET batch == Slice(investigations, i, BATCH_SIZE)
           batch_num == (i \div BATCH_SIZE) + 1
       IN  /\ total_batches' =
                 Some((Len(investigations) + BATCH_SIZE - 1) \div BATCH_SIZE)
           /\ sink' = Append(sink, [ batch_num |-> batch_num, batch |-> batch,
                                     raised |-> raised ])
           /\ IF raised
              THEN /\ failed' = failed + 1
                   /\ UNCHANGED imported
              ELSE /\ imported' = imported + Len(batch)
                   /\ UNCHANGED failed
    /\ i' = i + BATCH_SIZE
    /\ UNCHANGED << pc, SUPABASE_URL, SUPABASE_KEY, BATCH_SIZE, MAX_RECORDS,
                    supabase, records, tier1, high_signal, selected,
                    investigations, summary, exit_code, uvars >>

\* InsertBatch counting a failed batch as BATCH_SIZE records
InsertBatch_counts_batch_size(raised) ==
    /\ pc = "batches"
    /\ i < Len(investigations)
    /\ LET batch == Slice(investigations, i, BATCH_SIZE)
           batch_num == (i \div BATCH_SIZE) + 1
       IN  /\ total_batches' =
                 Some((Len(investigations) + BATCH_SIZE - 1) \div BATCH_SIZE)
           /\ sink' = Append(sink, [ batch_num |-> batch_num, batch |-> batch,
                                     raised |-> raised ])
           /\ IF raised
              THEN /\ failed' = failed + BATCH_SIZE
                   /\ UNCHANGED imported
              ELSE /\ imported' = imported + Len(batch)
                   /\ UNCHANGED failed
    /\ i' = i + BATCH_SIZE
    /\ UNCHANGED << pc, SUPABASE_URL, SUPABASE_KEY, BATCH_SIZE, MAX_RECORDS,
                    supabase, records, tier1, high_signal, selected,
                    investigations, summary, exit_code, uvars >>

\* InsertBatch whose except clause lets the error end the script
InsertBatch_aborts(raised) ==
    /\ pc = "batches"
    /\ i < Len(investigations)
    /\ LET batch == Slice(investigations, i, BATCH_SIZE)
           batch_num == (i \div BATCH_SIZE) + 1
       IN  /\ total_batches' =
                 Some((Len(investigations) + BATCH_SIZE - 1) \div BATCH_SIZE)
           /\ sink' = Append(sink, [ batch_num |-> batch_num, batch |-> batch,
                                     raised |-> raised ])
           /\ IF raised
              THEN /\ failed' = failed + Len(batch)
                   /\ UNCHANGED imported
              ELSE /\ imported' = imported + Len(batch)
                   /\ UNCHANGED failed
    /\ i' = i + BATCH_SIZE
    /\ IF raised
       THEN pc' = "crash" /\ exit_code' = Some(1)
       ELSE UNCHANGED << pc, exit_code >>
    /\ UNCHANGED << SUPABASE_URL, SUPABASE_KEY, BATCH_SIZE, MAX_RECORDS,
                    supabase, records, tier1, high_signal, selected,
                    investigations, summary, uvars >>

\* lines 195-206: one iteration of the batch loop; raised tells whether
\* insert(batch).execute() raised an Exception
InsertBatch(raised) ==
    /\ pc = "batches"
    /\ i < Len(investigations)
    /\ LET batch == Slice(investigations, i, BATCH_SIZE)
           batch_num == (i \div BATCH_SIZE) + 1
       IN  /\ total_batches' =
                 Some((Len(investigations) + BATCH_SIZE - 1) \div BATCH_SIZE)
           /\ sink' = Append(sink, [ batch_num |-> batch_num, batch |-> batch,
                                     raised |-> raised ])
           /\ IF raised
              THEN /\ failed' = failed + Len(batch)
                   /\ UNCHANGED imported
              ELSE /\ imported' = imported + Len(batch)
                   /\ UNCHANGED failed
    /\ i' = i + BATCH_SIZE
    /\ UNCHANGED << pc, SUPABASE_URL, SUPABASE_KEY, BATCH_SIZE, MAX_RECORDS,
                    supabase, records, tier1, high_signal, selected,
                    investigations, summary, exit_code, uvars >>

InsertReturns == InsertBatch(FALSE)
InsertRaises == InsertBatch(TRUE)

\* lines 208-218, then the normal end of the script
Summary ==
    /\ pc = "batches"
    /\ i >= Len(investigations)
    /\ summary' = Some([ imported |-> imported, failed |-> failed ])
    /\ pc' = "done"
    /\ exit_code' = Some(0)
    /\ UNCHANGED << SUPABASE_URL, SUPABASE_KEY, BATCH_SIZE, MAX_RECORDS, supabase,
                    records, tier1, high_signal, selected, investigations, i,
                    imported, failed, total_batches, sink, uvars >>

\* ------------------------------------------------------------------ inputs
\* A raw record none of whose fields is present
Blank ==
    [ latitude |-> None, longitude |-> None, local_sidereal_time |-> None,
      physiological_effects |-> None, em_interference |-> None,
      earthquake_nearby |-> None, geomagnetic_storm |-> None,
      witness_count |-> None, duration_seconds |-> None, shape |-> None,
      physical_effects |-> None, source |-> None, source_id |-> None,
      airport_nearby_km |-> None, military_base_nearby_km |-> None ]

Flags == { None, Some(0), Some(Num(1)) }
Coordinates == { None, Some(0), Some(-Num(120)) }
WitnessCounts == { None, Some(-Num(1)) } \cup { Some(w) : w \in 0..Num(MaxWitness) }
Durations == { None, Some(0), Some(Num(60)), Some(Num(61)) }
Shapes == { None, Some(""), Some("light"), Some("disk") }
Sources == { None, Some(""), Some("nuforc") }
Airports == { None, Some(0), Some(Num(10) - 1), Some(Num(10)), Some(Num(30) - 1),
              Some(Num(30)), Some(Num(50) - 1), Some(Num(50)) }
Militaries == { None, Some(0), Some(Num(30) - 1), Some(Num(30)), Some(Num(50) - 1),
                Some(Num(50)) }

\* Every record over the fields quality_score reads
QualityInputs ==
    [ latitude : {None}, longitude : {None}, local_sidereal_time : {None},
      physiological_effects : Flags, em_interference : Flags,
      earthquake_nearby : Flags, geomagnetic_storm : Flags,
      witness_count : WitnessCounts, duration_seconds : Durations, shape : Shapes,
      physical_effects : {None}, source : {None}, source_id : {None},
      airport_nearby_km : {None}, military_base_nearby_km : {None} ]

\* Every record over the fields calc_triage_score reads
TriageInputs ==
    [ latitude : Coordinates, longitude : Coordinates, local_sidereal_time : {None},
      physiological_effects : Flags, em_interference : Flags,
      earthquake_nearby : {None}, geomagnetic_storm : {None},
      witness_count : WitnessCounts, duration_seconds : Durations, shape : {None},
      physical_effects : Flags, source : Sources, source_id : {None},
      airport_nearby_km : {None}, military_base_nearby_km : {None} ]

\* Every record over the fields calc_confound_score reads
ConfoundInputs ==
    [ latitude : {None}, longitude : {None}, local_sidereal_time : {None},
      physiological_effects : Flags, em_interference : Flags,
      earthquake_nearby : {None}, geomagnetic_storm : {None},
      witness_count : {None}, duration_seconds : {None}, shape : {None},
      physical_effects : {None}, source : {None}, source_id : {None},
      airport_nearby_km : Airports, military_base_nearby_km : Militaries ]

\* Every pair of scores, whole or fractional
StatusInputs == (0..Num(10)) \X (0..Num(100))

\* Every record over the fields the selector, calc_triage_score and
\* calc_confound_score read, two or three values a field
WideRecords ==
    [ latitude : Coordinates, longitude : { None, Some(-Num(120)) },
      local_sidereal_time : { None, Some(0), Some(Num(12)) },
      physiological_effects : { None, Some(Num(1)) },
      em_interference : { None, Some(Num(1)) },
      earthquake_nearby : { None, Some(Num(1)) }, geomagnetic_storm : {None},
      witness_count : WitnessCounts, duration_seconds : { None, Some(Num(61)) },
      shape : {None}, physical_effects : { None, Some(Num(1)) },
      source : { None, Some("nuforc") }, source_id : { Some(1) },
      airport_nearby_km : { None, Some(0), Some(Num(30)) },
      military_base_nearby_km : { None, Some(0) } ]

WideContents == { << r >> : r \in WideRecords }

\* Eight sightings of a file: four are selected, four are not
Located ==
    [ Blank EXCEPT !.latitude = Some(Num(45)), !.longitude = Some(-Num(120)),
                   !.local_sidereal_time = Some(Num(12)) ]

Corpus ==
    { [ Located EXCEPT !.source_id = Some(1), !.physiological_effects = Some(Num(1)),
                       !.em_interference = Some(Num(1)),
                       !.witness_count = Some(Num(3)), !.source = Some("nuforc") ],
      [ Located EXCEPT !.source_id = Some(2), !.earthquake_nearby = Some(Num(1)),
                       !.airport_nearby_km = Some(Num(5)),
                       !.military_base_nearby_km = Some(Num(20)) ],
      [ Located EXCEPT !.source_id = Some(3), !.witness_count = Some(Num(2)) ],
      [ Located EXCEPT !.source_id = Some(4), !.em_interference = Some(Num(1)),
                       !.duration_seconds = Some(Num(120)), !.shape = Some("disk") ],
      [ Located EXCEPT !.source_id = Some(5), !.geomagnetic_storm = Some(Num(1)),
                       !.duration_seconds = Some(Num(300)), !.shape = Some("disk"),
                       !.witness_count = Some(Num(1)) ],
      [ Located EXCEPT !.source_id = Some(6), !.local_sidereal_time = None,
                       !.physiological_effects = Some(Num(1)),
                       !.em_interference = Some(Num(1)),
                       !.earthquake_nearby = Some(Num(1)) ],
      [ Located EXCEPT !.source_id = Some(7), !.latitude = None,
                       !.physiological_effects = Some(Num(1)),
                       !.witness_count = Some(Num(4)) ],
      [ Located EXCEPT !.source_id = Some(8), !.longitude = Some(0),
                       !.em_interference = Some(Num(1)),
                       !.earthquake_nearby = Some(Num(1)) ] }

\* The files of at most MaxLen distinct sightings
FileContents ==
    { s \in UNION { [ 1..n -> Corpus ] : n \in 0..MaxLen } :
        \A a, b \in 1..Len(s) : a # b => s[a] # s[b] }

LoadFile == Load(FileContents)
LoadWide == Load(WideContents)

\* ------------------------------------------------------------------ scorers called on their own
CallQuality ==
    /\ fn = "quality_score" /\ result = None
    /\ result' = Some(quality_score(arg))
    /\ UNCHANGED << pvars, fn, arg >>

CallTriage ==
    /\ fn = "calc_triage_score" /\ result = None
    /\ result' = Some(calc_triage_score(arg))
    /\ UNCHANGED << pvars, fn, arg >>

CallConfound ==
    /\ fn = "calc_confound_score" /\ result = None
    /\ result' = Some(calc_confound_score(arg))
    /\ UNCHANGED << pvars, fn, arg >>

CallStatus ==
    /\ fn = "triage_status" /\ result = None
    /\ result' = Some(triage_status(arg[1], arg[2]))
    /\ UNCHANGED << pvars, fn, arg >>

\* ------------------------------------------------------------------ specifications
Init == InitPipeline(1..MaxBatchSize, 1..MaxLen) /\ NoCall

Next ==
    \/ CheckConfig
    \/ LoadFile
    \/ LoadFails
    \/ Select
    \/ Transform
    \/ InsertReturns
    \/ InsertRaises
    \/ Summary

\* The script run on files of at most MaxLen sightings of Corpus
Spec == Init /\ [][Next]_vars

InitWide == InitPipeline({1}, {1}) /\ NoCall

NextWide ==
    \/ CheckConfig
    \/ LoadWide
    \/ LoadFails
    \/ Select
    \/ Transform
    \/ InsertReturns
    \/ InsertRaises
    \/ Summary

\* The script run on files of one sighting, over every record of WideRecords
WideSpec == InitWide /\ [][NextWide]_vars

InitUnit ==
    /\ InitPipeline({1}, {1})
    /\ SUPABASE_URL = None /\ SUPABASE_KEY = None
    /\ result = None
    /\ \/ fn = "quality_score" /\ arg \in QualityInputs
       \/ fn = "calc_triage_score" /\ arg \in TriageInputs
       \/ fn = "calc_confound_score" /\ arg \in ConfoundInputs
       \/ fn = "triage_status" /\ arg \in StatusInputs

NextUnit ==
    \/ CallQuality
    \/ CallTriage
    \/ CallConfound
    \/ CallStatus

\* Each scorer and the status classifier applied to every input of its domain
UnitSpec == InitUnit /\ [][NextUnit]_vars

\* ------------------------------------------------------------------ helpers of the claims
\* The smallest k with k * b >= n
CeilDiv(n, b) == CHOOSE k \in 0..n : k * b >= n /\ (k = 0 \/ (k - 1) * b < n)

\* The batches of the insert calls c, one after the other
RECURSIVE Flatten(_)
Flatten(c) == IF c = << >> THEN << >> ELSE Head(c).batch \o Flatten(Tail(c))

MissingConfig == ~TruthyStr(SUPABASE_URL) \/ ~TruthyStr(SUPABASE_KEY)

\* ------------------------------------------------------------------ C1
\* C1: a step that makes an insert call adds the whole size of its batch to
\* failed and leaves imported alone when the call raised, adds it to imported
\* and leaves failed alone when the call returned; no other step changes
\* either total.
C1_BatchCountedWhole ==
    [][ IF Len(sink') = Len(sink) + 1
        THEN LET call == sink'[Len(sink')]
             IN  /\ call.batch = SubSeq(investigations, i + 1,
                                        Min(i + BATCH_SIZE, Len(investigations)))
                 /\ call.raised =>
                      failed' = failed + Len(call.batch) /\ imported' = imported
                 /\ ~call.raised =>
                      imported' = imported + Len(call.batch) /\ failed' = failed
        ELSE sink' = sink /\ imported' = imported /\ failed' = failed ]_vars

\* a batch of two records has failed and another batch has been imported
C1_Witness ==
    \E a, b \in 1..Len(sink) :
        /\ sink[a].raised /\ Len(sink[a].batch) = 2
        /\ ~sink[b].raised
        /\ failed = 2 /\ imported = Len(sink[b].batch)

\* ------------------------------------------------------------------ C2
\* C2: once the configuration is present and the file is loaded, whatever
\* the insert calls do, the k-th call made is the call of batch k (each
\* batch once, in order; a failure neither ends the loop nor repeats a
\* batch), the script has no exit other than the summary, and it ends with
\* the summary printed and exit status 0 after as many calls as there are
\* batches.  It does end: in the loop a step is always possible, and every
\* step lowers the count of what is left to do.
C2_Attempts ==
    records # None =>
        /\ \A k \in 1..Len(sink) :
              /\ sink[k].batch_num = k
              /\ sink[k].batch = SubSeq(investigations, (k - 1) * BATCH_SIZE + 1,
                                        Min(k * BATCH_SIZE, Len(investigations)))
        /\ pc \in { "select", "transform", "batches", "done" }
        /\ pc # "done" => exit_code = None /\ summary = None
        /\ pc = "batches" => Len(sink) = CeilDiv(Min(i, Len(investigations)), BATCH_SIZE)
        /\ pc = "done" =>
              /\ exit_code = Some(0)
              /\ summary = Some([ imported |-> imported, failed |-> failed ])
              /\ Len(sink) = CeilDiv(Len(investigations), BATCH_SIZE)

\* what is left to do: the steps before the loop, then the records not yet
\* sent, then the summary
C2_Remaining ==
    CASE pc = "select" -> Len(records[1]) + 3
      [] pc = "transform" -> Len(records[1]) + 2
      [] pc = "batches" -> Len(investigations) - Min(i, Len(investigations)) + 1
      [] OTHER -> 0

C2_EveryBatchOnceThenExit0 ==
    /\ []C2_Attempts
    /\ [](pc = "batches" => ENABLED (InsertReturns \/ InsertRaises \/ Summary))
    /\ [][ records # None => C2_Remaining' < C2_Remaining ]_vars

\* the script has ended normally after three calls, the first and the last
\* of which raised
C2_Witness ==
    /\ pc = "done" /\ exit_code = Some(0)
    /\ Len(sink) = 3
    /\ sink[1].raised /\ ~sink[2].raised /\ sink[3].raised

\* ------------------------------------------------------------------ C3
\* C3: with the URL or the key unset or empty, the client is never created,
\* the file never read, nothing selected, transformed or sent, and the
\* script's only step is the exit with status 1.
C3_MissingConfigExits1 ==
    MissingConfig =>
        /\ supabase = FALSE
        /\ records = None
        /\ tier1 = << >> /\ high_signal = << >> /\ selected = << >>
        /\ investigations = << >>
        /\ sink = << >>
        /\ pc \in { "config", "exit" }
        /\ pc = "exit" <=> exit_code = Some(1)
        /\ pc = "config" => exit_code = None /\ ENABLED CheckConfig

\* the script has exited on an empty URL, the key being set
C3_Witness ==
    /\ pc = "exit" /\ exit_code = Some(1)
    /\ SUPABASE_URL = Some("") /\ SUPABASE_KEY = Some("set")

\* ------------------------------------------------------------------ C4
\* C4: the calls made so far carry, in order, the first records of the
\* transformed list, in batches of exactly BATCH_SIZE records but for a last
\* one of 1..BATCH_SIZE records; at the end there are ceil(N / BATCH_SIZE)
\* calls (none when N = 0), their batches concatenated are the transformed
\* list, and the total_batches printed is the number of calls made.
C4_BatchPartition ==
    LET N == Len(investigations)
    IN  /\ Flatten(sink) = SubSeq(investigations, 1, Min(i, N))
        /\ \A k \in 1..Len(sink) :
              /\ Len(sink[k].batch) \in 1..BATCH_SIZE
              /\ k < Len(sink) => Len(sink[k].batch) = BATCH_SIZE
              /\ Len(sink[k].batch) < BATCH_SIZE => i >= N
        /\ pc \in { "batches", "done" } =>
              investigations = [ k \in 1..Len(selected) |-> transform_record(selected[k]) ]
        /\ pc = "done" =>
              /\ Len(sink) = CeilDiv(N, BATCH_SIZE)
              /\ Flatten(sink) = investigations
              /\ N = 0 => sink = << >> /\ total_batches = None
              /\ N > 0 => total_batches = Some(Len(sink))

\* three records went out in a batch of two and a last batch of one
C4_Witness ==
    /\ pc = "done" /\ BATCH_SIZE = 2
    /\ Len(investigations) = 3
    /\ Len(sink) = 2 /\ Len(sink[1].batch) = 2 /\ Len(sink[2].batch) = 1

\* ------------------------------------------------------------------ C9
\* C9: in and after the batch loop imported + failed is the number of
\* records of the batches sent so far, at the end it is the number of
\* selected records, and no step decreases imported or failed.
C9_Accounting ==
    /\ [](pc \in { "batches", "done" } =>
            /\ imported + failed = Len(Flatten(sink))
            /\ imported + failed = Min(i, Len(investigations))
            /\ pc = "done" => imported + failed = Len(selected))
    /\ [][ imported' >= imported /\ failed' >= failed ]_vars

\* three selected records are accounted for, some imported and some failed
C9_Witness ==
    /\ pc = "done" /\ Len(selected) = 3
    /\ imported > 0 /\ failed > 0 /\ imported + failed = 3

\* ------------------------------------------------------------------ C5
\* C5: every selected record, and every record sent to the sink, has a
\* truthy latitude, longitude and local_sidereal_time and at least one of
\* physiological_effects, em_interference, earthquake_nearby truthy or a
\* witness_count > 1; every selected record is a record of the file.
C5_SelectedAreTier1HighSignal ==
    /\ \A k \in 1..Len(selected) :
          LET r == selected[k]
          IN  /\ \E j \in 1..Len(records[1]) : records[1][j] = r
              /\ r.latitude # None /\ r.latitude[1] # 0
              /\ r.longitude # None /\ r.longitude[1] # 0
              /\ r.local_sidereal_time # None /\ r.local_sidereal_time[1] # 0
              /\ \/ r.physiological_effects \notin { None, Some(0) }
                 \/ r.em_interference \notin { None, Some(0) }
                 \/ r.earthquake_nearby \notin { None, Some(0) }
                 \/ (r.witness_count # None /\ r.witness_count[1] > Num(1))
    /\ \A c \in 1..Len(sink) : \A k \in 1..Len(sink[c].batch) :
          LET d == sink[c].batch[k].raw_data
          IN  /\ d.location.latitude \notin { None, Some(0) }
              /\ d.location.longitude \notin { None, Some(0) }
              /\ d.local_sidereal_time \notin { None, Some(0) }
              /\ \/ d.effects.physiological_effects \notin { None, Some(0) }
                 \/ d.effects.em_interference \notin { None, Some(0) }
                 \/ d.geophysical.earthquake_nearby \notin { None, Some(0) }
                 \/ (d.witness_count # None /\ d.witness_count[1] > Num(1))

\* a file held a record with all three effect flags but no
\* local_sidereal_time, a located record with only storm, duration and shape
\* signal, and a record that was selected and sent
C5_Witness ==
    /\ pc = "done" /\ Len(selected) = 1 /\ Len(sink) = 1
    /\ \E j \in 1..Len(records[1]) :
          /\ records[1][j].local_sidereal_time = None
          /\ records[1][j].physiological_effects = Some(Num(1))
    /\ \E j \in 1..Len(records[1]) :
          /\ records[1][j].latitude # None /\ records[1][j].local_sidereal_time # None
          /\ records[1][j].geomagnetic_storm = Some(Num(1))
          /\ records[1][j].duration_seconds = Some(Num(300))

\* ------------------------------------------------------------------ C6
\* C6: the selected list holds at most MAX_RECORDS records and at most as
\* many as there are high-signal records, exactly the smaller of the two
\* numbers; its records, and the transformed records in the same
\* order, are in descending order of quality_score; and no tier-1
\* high-signal record of the file that was left out scores strictly higher
\* than a selected one.
C6_TopByQuality ==
    pc \in { "transform", "batches", "done" } =>
        LET file == records[1]
            HighSignal == { j \in 1..Len(file) : is_tier1(file[j]) /\ is_high_signal(file[j]) }
        IN  /\ Len(high_signal) = Cardinality(HighSignal)
            /\ Len(selected) <= MAX_RECORDS
            /\ Len(selected) <= Len(high_signal)
            /\ Len(selected) = Min(MAX_RECORDS, Cardinality(HighSignal))
            /\ \A a, b \in 1..Len(selected) :
                  a < b => quality_score(selected[a]) >= quality_score(selected[b])
            /\ \A k \in 1..Len(investigations) :
                  investigations[k].raw_data.source_id = selected[k].source_id
            /\ \A j \in HighSignal :
                  (\A k \in 1..Len(selected) : selected[k] # file[j]) =>
                      \A k \in 1..Len(selected) :
                          quality_score(file[j]) <= quality_score(selected[k])

\* the file listed three high-signal records in ascending order of score;
\* the two best were selected, best first
C6_Witness ==
    /\ pc = "done" /\ MAX_RECORDS = 2
    /\ Len(records[1]) = 3 /\ Len(high_signal) = 3 /\ Len(selected) = 2
    /\ quality_score(records[1][1]) < quality_score(records[1][2])
    /\ quality_score(records[1][2]) < quality_score(records[1][3])
    /\ selected = << records[1][3], records[1][2] >>
    /\ investigations[1].raw_data.source_id = records[1][3].source_id

\* ------------------------------------------------------------------ C7
\* C7: for every pair of a triage score in [0,10] and a confound score in
\* [0,100] the status is verified exactly when triage >= 7 and confound <
\* 30, otherwise provisional exactly when triage >= 4 or confound < 50,
\* otherwise pending; (7,29), (7,30), (3,60) and (0,10) give verified,
\* provisional, pending and provisional.
C7_StatusOfScores ==
    (fn = "triage_status" /\ result # None) =>
        LET t == arg[1]
            c == arg[2]
            v == t >= 7 * Den /\ c < 30 * Den
            p == ~v /\ (t >= 4 * Den \/ c < 50 * Den)
        IN  /\ result[1] \in { "verified", "provisional", "pending" }
            /\ result[1] = "verified" <=> v
            /\ result[1] = "provisional" <=> p
            /\ result[1] = "pending" <=> (~v /\ ~p)
            /\ arg = << 7 * Den, 29 * Den >> => result[1] = "verified"
            /\ arg = << 7 * Den, 30 * Den >> => result[1] = "provisional"
            /\ arg = << 3 * Den, 60 * Den >> => result[1] = "pending"
            /\ arg = << 0, 10 * Den >> => result[1] = "provisional"

\* the pair (7, 29) has been classified as verified
C7_Witness ==
    fn = "triage_status" /\ arg = << 7 * Den, 29 * Den >> /\ result = Some("verified")

\* ------------------------------------------------------------------ C8
\* C8: for every raw record the three scorers return; each value is an
\* integer, the triage score within [0,10], the confound score within
\* [0,100] and the quality score >= 0.
C8_ScoresAreBoundedIntegers ==
    /\ (fn \in { "quality_score", "calc_triage_score", "calc_confound_score" }
          /\ result = None) => ENABLED NextUnit
    /\ (fn = "quality_score" /\ result # None) =>
          IsInteger(result[1]) /\ result[1] >= 0
    /\ (fn = "calc_triage_score" /\ result # None) =>
          IsInteger(result[1]) /\ result[1] >= 0 /\ result[1] <= 10 * Den
    /\ (fn = "calc_confound_score" /\ result # None) =>
          IsInteger(result[1]) /\ result[1] >= 0 /\ result[1] <= 100 * Den

\* ------------------------------------------------------------------ C10
\* C10: of a record sent to the sink whose witness_count is absent or an
\* integer: its triage_score is >= 3; if physiological_effects or
\* em_interference is truthy or witness_count > 1, its triage_score is >= 4
\* and its status verified or provisional; if its status is pending, then
\* neither flag is truthy, witness_count is not > 1, earthquake_nearby is
\* truthy and the confound score is >= 50.
C10_SentRecordsTriage ==
    \A c \in 1..Len(sink) : \A k \in 1..Len(sink[c].batch) :
        LET inv == sink[c].batch[k]
            d == inv.raw_data
            phys == d.effects.physiological_effects \notin { None, Some(0) }
            em == d.effects.em_interference \notin { None, Some(0) }
            quake == d.geophysical.earthquake_nearby \notin { None, Some(0) }
            many == d.witness_count # None /\ d.witness_count[1] > Num(1)
        IN  (d.witness_count = None \/ IsInteger(d.witness_count[1])) =>
              /\ inv.triage_score >= 3 * Den
              /\ (phys \/ em \/ many) =>
                    /\ inv.triage_score >= 4 * Den
                    /\ inv.triage_status \in { "verified", "provisional" }
              /\ inv.triage_status = "pending" =>
                    /\ ~phys /\ ~em /\ ~many /\ quake
                    /\ d.confound_score >= 50 * Den

\* a record whose only signal is earthquake_nearby, next to an airport and a
\* military base, has been sent as pending
C10_Witness ==
    \E c \in 1..Len(sink) :
        LET inv == sink[c].batch[1]
        IN  /\ inv.triage_status = "pending"
            /\ inv.triage_score = 3 * Den
            /\ inv.raw_data.geophysical.earthquake_nearby = Some(Num(1))
            /\ inv.raw_data.confound_score >= 50 * Den

====
